---- MODULE Spec2Model ----
(***************************************************************************)
(* MCP_AutoAdvisor_Server: the tool dispatcher (server.py call_tool), the  *)
(* lazily built dataset and price model (tools.py init_data_and_model),    *)
(* the record filter (_apply_filters) and the tool handlers.               *)
(*                                                                         *)
(* Python values are tagged records of one shape, so that values of        *)
(* different Python types can be compared.  A Python str is a sequence of  *)
(* one-character strings.  A DataFrame is a sequence of [idx, row]: idx is *)
(* the pandas index label, row maps column names to cells.                 *)
(***************************************************************************)
EXTENDS Integers, Sequences, FiniteSets, TLC

VARIABLES
    table,        \* the CSV file at DATA_PATH (environment)
    na_as_text,   \* library behaviour: astype(str) turns a missing cell into "nan"
    state,        \* server.py STATE (state in tools.py): df, model, feature_columns
    call,         \* the last call_tool invocation: name, arguments
    outcome,      \* what the last invocation gave its caller
    loads,        \* how many times init_data_and_model has run
    ncalls,       \* how many invocations have run
    fn,           \* the function applied by the last step of the function specification
    fn_args,      \* its argument object
    fn_out,       \* its result
    pc,           \* concurrent dispatch: each invocation's position in call_tool
    partial_seen  \* concurrent dispatch: a handler ran on partially stored state

vars == <<table, na_as_text, state, call, outcome, loads, ncalls, fn, fn_args, fn_out,
          pc, partial_seen>>

-----------------------------------------------------------------------------
(* Python values *)

None == [t |-> "none", n |-> 0, s |-> <<>>]
NaN == [t |-> "nan", n |-> 0, s |-> <<>>]
PyInt(n) == [t |-> "int", n |-> n, s |-> <<>>]
\* the float k + 0.5
Half(k) == [t |-> "float", n |-> k, s |-> <<>>]
Str(s) == [t |-> "str", n |-> 0, s |-> s]

\* a number as twice its value, to compare ints with floats
Twice(v) == IF v.t = "float" THEN 2 * v.n + 1 ELSE 2 * v.n
IsNumber(v) == v.t \in {"int", "float"}

Whitespace == {" "}
UpperToLower ==
    ("T" :> "t") @@ ("H" :> "h") @@ ("G" :> "g") @@ ("D" :> "d") @@ ("Y" :> "y")
    @@ ("N" :> "n") @@ ("U" :> "u") @@ ("A" :> "a") @@ ("M" :> "m") @@ ("O" :> "o")
    @@ ("S" :> "s") @@ ("P" :> "p") @@ ("F" :> "f")

RECURSIVE lstrip(_)
lstrip(s) == IF s # <<>> /\ Head(s) \in Whitespace THEN lstrip(Tail(s)) ELSE s
RECURSIVE rstrip(_)
rstrip(s) ==
    IF s # <<>> /\ s[Len(s)] \in Whitespace THEN rstrip(SubSeq(s, 1, Len(s) - 1)) ELSE s
\* str.strip()
strip(s) == rstrip(lstrip(s))
\* str.lower()
lower(s) == [i \in 1..Len(s) |-> IF s[i] \in DOMAIN UpperToLower THEN UpperToLower[s[i]] ELSE s[i]]

DigitChar == <<"0", "1", "2", "3", "4", "5", "6", "7", "8", "9">>
RECURSIVE Digits(_)
Digits(n) == IF n < 10 THEN <<DigitChar[n + 1]>> ELSE Digits(n \div 10) \o <<DigitChar[(n % 10) + 1]>>
\* str(v)
str_(v) ==
    CASE v.t = "str" -> v.s
      [] v.t = "none" -> <<"N", "o", "n", "e">>
      [] v.t = "nan" -> <<"n", "a", "n">>
      [] v.t = "int" -> IF v.n >= 0 THEN Digits(v.n) ELSE <<"-">> \o Digits(-v.n)
      [] v.t = "float" ->
           IF v.n >= 0 THEN Digits(v.n) \o <<".", "5">>
           ELSE <<"-">> \o Digits(-v.n - 1) \o <<".", "5">>

\* bool(v)
Truthy(v) ==
    CASE v.t = "str" -> v.s # <<>>
      [] v.t = "none" -> FALSE
      [] v.t = "int" -> v.n # 0
      [] v.t = "float" -> TRUE
      [] v.t = "nan" -> TRUE

\* a conversion's result: the number, or the exception raised.  The strings of
\* the model hold no digit, so int() and float() of a str always raise.
Conv(v) == [raised |-> FALSE, v |-> v, msg |-> ""]
ConvError(m) == [raised |-> TRUE, v |-> None, msg |-> m]
\* int(v): truncation toward zero
int_(v) ==
    CASE v.t = "int" -> Conv(v)
      [] v.t = "float" -> Conv(PyInt(IF v.n >= 0 THEN v.n ELSE v.n + 1))
      [] v.t = "str" -> ConvError("invalid literal for int() with base 10")
      [] OTHER -> ConvError("int() argument must be a string, a bytes-like object or a real number, not 'NoneType'")
\* float(v)
float_(v) ==
    CASE v.t \in {"int", "float"} -> Conv(v)
      [] v.t = "str" -> ConvError("could not convert string to float")
      [] OTHER -> ConvError("float() argument must be a string or a real number, not 'NoneType'")

\* dict.get(k, d)
get(args, k, d) == IF k \in DOMAIN args THEN args[k] ELSE d

-----------------------------------------------------------------------------
(* The source table and its cleaning: tools.py *)

REQUIRED_COLUMNS ==
    <<"Car Make", "Car Model", "Year", "Mileage", "Price", "Fuel Type",
      "Color", "Transmission", "Options/Features", "Condition", "Accident">>
Range(s) == {s[i] : i \in DOMAIN s}

YearMin == 2010
YearMax == 2025
MileageMax == 300000
PriceMax == 400000

\* pd.read_csv: a missing file raises; rows are labelled 0, 1, ...
read_csv(t) ==
    IF ~t.exists THEN [raised |-> TRUE, msg |-> "No such file or directory", df |-> <<>>]
    ELSE [raised |-> FALSE, msg |-> "",
          df |-> [i \in 1..Len(t.rows) |-> [idx |-> i - 1, row |-> t.rows[i]]]]

_check_columns(t) ==
    LET missing == SelectSeq(REQUIRED_COLUMNS, LAMBDA c : c \notin t.columns)
    IN  IF missing # <<>> THEN [raised |-> TRUE, msg |-> "Missing columns in dataset", missing |-> missing]
        ELSE [raised |-> FALSE, msg |-> "", missing |-> <<>>]

\* pd.to_numeric(errors="coerce")
to_numeric(c) == IF IsNumber(c) THEN c ELSE NaN
\* Series.astype(str): a missing cell becomes the text "nan", or stays missing,
\* depending on the pandas release; the repository pins none
astype_str(c) ==
    IF c.t = "nan" THEN (IF na_as_text THEN Str(<<"n", "a", "n">>) ELSE NaN)
    ELSE Str(str_(c))
\* Series.str.strip(): a missing cell stays missing
str_strip(c) == IF c.t = "str" THEN Str(strip(c.s)) ELSE c
\* Series.str.lower()
str_lower(c) == IF c.t = "str" THEN Str(lower(c.s)) ELSE c

NumericColumns == {"Year", "Mileage", "Price"}
StripColumns == {"Car Make", "Car Model", "Fuel Type", "Color", "Transmission", "Condition", "Accident"}
DropnaSubset == {"Year", "Mileage", "Price", "Fuel Type", "Transmission", "Condition", "Accident"}

\* a comparison with a missing value is False
InRange(c, lo, hi) == IsNumber(c) /\ Twice(c) >= 2 * lo /\ Twice(c) <= 2 * hi
PriceInRange(c) == IsNumber(c) /\ Twice(c) > 0 /\ Twice(c) <= 2 * PriceMax

_clean_df(df) ==
    LET CleanCell(c, v) ==
            IF c \in NumericColumns THEN to_numeric(v)
            ELSE IF c \in StripColumns THEN str_strip(astype_str(v))
            ELSE v
        typed == [i \in 1..Len(df) |->
                    [idx |-> df[i].idx,
                     row |-> [c \in DOMAIN df[i].row |-> CleanCell(c, df[i].row[c])]]]
        d1 == SelectSeq(typed, LAMBDA r : \A c \in DropnaSubset : r.row[c].t # "nan")
        d2 == SelectSeq(d1, LAMBDA r : InRange(r.row["Year"], YearMin, YearMax))
        d3 == SelectSeq(d2, LAMBDA r : InRange(r.row["Mileage"], 0, MileageMax))
    IN  SelectSeq(d3, LAMBDA r : PriceInRange(r.row["Price"]))

\* lines 48-72: the fitted pipeline.  The regression's numerics belong to the
\* library: the fitted model is what determines them, the encoder's vocabulary
\* and the training rows.  Fitting no sample raises.
feature_cols_numeric == <<"Year", "Mileage">>
feature_cols_categ == <<"Fuel Type", "Transmission", "Condition", "Accident", "Car Make", "Car Model">>

NoModel == [n_samples |-> 0, categories |-> [c \in Range(feature_cols_categ) |-> {}], fitted_on |-> <<>>]
fit(df) ==
    IF Len(df) = 0
    THEN [raised |-> TRUE, msg |-> "Found array with 0 sample(s) while a minimum of 1 is required", model |-> NoModel]
    ELSE [raised |-> FALSE, msg |-> "",
          model |-> [n_samples |-> Len(df),
                     categories |-> [c \in Range(feature_cols_categ) |-> {df[i].row[c] : i \in 1..Len(df)}],
                     fitted_on |-> [i \in 1..Len(df) |->
                                      [c \in Range(feature_cols_numeric \o feature_cols_categ) \cup {"Price"}
                                         |-> df[i].row[c]]]]]

\* server.py lines 43-47: a field is None until initialization stores it
NoneDf == [is_none |-> TRUE, v |-> <<>>]
NoneModel == [is_none |-> TRUE, v |-> NoModel]
NoneColumns == [is_none |-> TRUE, v |-> <<>>]
Some(x) == [is_none |-> FALSE, v |-> x]
STATE0 == [df |-> NoneDf, model |-> NoneModel, feature_columns |-> NoneColumns]

\* tools.py lines 43-72 with a bug planted: the dataset is stored before the fit
init_data_and_model_StoresBeforeFit(t, st) ==
    LET rd == read_csv(t)
        ck == _check_columns(t)
        df == _clean_df(rd.df)
        m == fit(df)
    IN  IF rd.raised THEN [raised |-> TRUE, msg |-> rd.msg, state |-> st]
        ELSE IF ck.raised THEN [raised |-> TRUE, msg |-> ck.msg, state |-> st]
        ELSE IF m.raised THEN [raised |-> TRUE, msg |-> m.msg, state |-> [st EXCEPT !.df = Some(df)]]
        ELSE [raised |-> FALSE, msg |-> "",
              state |-> [df |-> Some(df), model |-> Some(m.model),
                         feature_columns |-> Some(feature_cols_numeric \o feature_cols_categ)]]

\* the state is written only after the fit: lines 70-72
init_data_and_model(t, st) ==
    LET rd == read_csv(t)
        ck == _check_columns(t)
        df == _clean_df(rd.df)
        m == fit(df)
    IN  IF rd.raised THEN [raised |-> TRUE, msg |-> rd.msg, state |-> st]
        ELSE IF ck.raised THEN [raised |-> TRUE, msg |-> ck.msg, state |-> st]
        ELSE IF m.raised THEN [raised |-> TRUE, msg |-> m.msg, state |-> st]
        ELSE [raised |-> FALSE, msg |-> "",
              state |-> [df |-> Some(df), model |-> Some(m.model),
                         feature_columns |-> Some(feature_cols_numeric \o feature_cols_categ)]]

-----------------------------------------------------------------------------
(* Filtering: tools.py _apply_filters *)

ExactColumns == <<"Car Make", "Car Model", "Fuel Type", "Transmission", "Condition", "Accident">>

\* line 77 with a bug planted: the criterion is not lower-cased
_norm_NoLower(v) == strip(str_(v))
\* line 77
_norm(v) == lower(strip(str_(v)))

\* Series == str: a missing cell equals nothing
CellEq(c, s) == c.t = "str" /\ c.s = s
Ge(c, b) == IsNumber(c) /\ Twice(c) >= Twice(b)
Le(c, b) == IsNumber(c) /\ Twice(c) <= Twice(b)

\* lines 80-82, one column
ExactFilter(q, args, col) ==
    IF col \in DOMAIN args /\ Truthy(args[col])
    THEN SelectSeq(q, LAMBDA r : CellEq(str_lower(str_strip(astype_str(r.row[col]))), _norm(args[col])))
    ELSE q

RECURSIVE ExactFilters(_, _, _)
ExactFilters(q, args, i) ==
    IF i > Len(ExactColumns) THEN q
    ELSE ExactFilters(ExactFilter(q, args, ExactColumns[i]), args, i + 1)

\* lines 85-92, one bound: skipped when absent or None; b is the converted
\* bound, or what the conversion raised
RangeStep(res, present, b, col, op) ==
    IF res.raised \/ ~present THEN res
    ELSE IF b.raised THEN [raised |-> TRUE, msg |-> b.msg, q |-> res.q]
    ELSE [res EXCEPT !.q = SelectSeq(res.q, LAMBDA r : IF op = ">=" THEN Ge(r.row[col], b.v)
                                                        ELSE Le(r.row[col], b.v))]

\* args.get(key) is not None
IsNotNone(args, key) == get(args, key, None).t # "none"

_apply_filters(df, args) ==
    LET r0 == [raised |-> FALSE, msg |-> "", q |-> ExactFilters(df, args, 1)]
        r1 == RangeStep(r0, IsNotNone(args, "Year_min"), int_(args["Year_min"]), "Year", ">=")
        r2 == RangeStep(r1, IsNotNone(args, "Year_max"), int_(args["Year_max"]), "Year", "<=")
        r3 == RangeStep(r2, IsNotNone(args, "Price_max"), float_(args["Price_max"]), "Price", "<=")
    IN  RangeStep(r3, IsNotNone(args, "Mileage_max"), float_(args["Mileage_max"]), "Mileage", "<=")

-----------------------------------------------------------------------------
(* Sorting and truncation: DataFrame.sort_values, DataFrame.head *)

\* lines 101 and 111 with a bug planted: Year ascending among equal prices
PriceYearLess_YearAscending(a, b) ==
    \/ Twice(a.row["Price"]) < Twice(b.row["Price"])
    \/ /\ Twice(a.row["Price"]) = Twice(b.row["Price"])
       /\ Twice(a.row["Year"]) < Twice(b.row["Year"])
\* by=["Price","Year"], ascending=[True, False]
PriceYearLess(a, b) ==
    \/ Twice(a.row["Price"]) < Twice(b.row["Price"])
    \/ /\ Twice(a.row["Price"]) = Twice(b.row["Price"])
       /\ Twice(a.row["Year"]) > Twice(b.row["Year"])
\* by="Price", ascending=True / False
PriceAscLess(a, b) == Twice(a.row["Price"]) < Twice(b.row["Price"])
PriceDescLess(a, b) == Twice(a.row["Price"]) > Twice(b.row["Price"])
Less(by, a, b) ==
    CASE by = "Price,Year" -> PriceYearLess(a, b)
      [] by = "Price asc" -> PriceAscLess(a, b)
      [] by = "Price desc" -> PriceDescLess(a, b)

RECURSIVE Insert(_, _, _)
Insert(s, x, by) ==
    IF s = <<>> THEN <<x>>
    ELSE IF Less(by, x, Head(s)) THEN <<x>> \o s
    ELSE <<Head(s)>> \o Insert(Tail(s), x, by)
\* a stable sort: equal keys keep the frame's order
RECURSIVE sort_values(_, _)
sort_values(s, by) ==
    IF s = <<>> THEN <<>>
    ELSE Insert(sort_values(SubSeq(s, 1, Len(s) - 1), by), s[Len(s)], by)

\* head(n): the first n rows; for a negative n, all but the last -n rows
head(s, n) ==
    IF n >= 0 THEN SubSeq(s, 1, IF n < Len(s) THEN n ELSE Len(s))
    ELSE SubSeq(s, 1, IF Len(s) + n > 0 THEN Len(s) + n ELSE 0)

\* q[cols].to_dict(orient="records")
to_dict(q, cols) == [i \in 1..Len(q) |-> [c \in cols |-> q[i].row[c]]]

-----------------------------------------------------------------------------
(* The tool handlers: tools.py lines 97-142.  A handler is given references  *)
(* to the caller's argument object and to the stored DataFrame: its result   *)
(* carries both as they are when it returns or raises.                       *)

EmptyDict == [k \in {} |-> None]
NoPred == [fitted_on |-> <<>>, x |-> EmptyDict]
NoOut == [keys |-> {}, count |-> 0, rows |-> <<>>, echo |-> EmptyDict, num |-> None,
          den |-> 0, order |-> None, pred |-> NoPred]
Raise(msg, args, df) == [raised |-> TRUE, msg |-> msg, args |-> args, df |-> df, out |-> NoOut]
Return(out, args, df) == [raised |-> FALSE, msg |-> "", args |-> args, df |-> df, out |-> out]

FilterLimitDefault == 20
RecommendLimitDefault == 10
TopNDefault == 10

FilterCarsColumns ==
    {"Car Make", "Car Model", "Year", "Mileage", "Price", "Fuel Type", "Transmission",
     "Condition", "Accident", "Color"}
ListingColumns == FilterCarsColumns \ {"Color"}

tool_filter_cars(df, args) ==
    LET f == _apply_filters(df, args)
        limit == int_(get(args, "limit", PyInt(FilterLimitDefault)))
        out == to_dict(head(sort_values(f.q, "Price,Year"), limit.v.n), FilterCarsColumns)
    IN  IF f.raised THEN Raise(f.msg, args, df)
        ELSE IF limit.raised THEN Raise(limit.msg, args, df)
        ELSE Return([NoOut EXCEPT !.keys = {"count", "results"}, !.count = Len(out), !.rows = out],
                    args, df)

\* dict(args) with Price_max set: line 107-108
WithPriceMax(args) ==
    [k \in DOMAIN args \cup {"Price_max"} |-> IF k = "Price_max" THEN args["budget_max"] ELSE args[k]]

\* tool_recommend with a bug planted: Price_max is set on the caller's object
tool_recommend_InPlace(df, args) ==
    IF "budget_max" \notin DOMAIN args THEN Raise("budget_max is required", args, df)
    ELSE LET args_local == WithPriceMax(args)
             f == _apply_filters(df, args_local)
             limit == int_(get(args_local, "limit", PyInt(RecommendLimitDefault)))
             out == to_dict(head(sort_values(f.q, "Price,Year"), limit.v.n), ListingColumns)
             budget == float_(args_local["budget_max"])
         IN  IF f.raised THEN Raise(f.msg, args_local, df)
             ELSE IF limit.raised THEN Raise(limit.msg, args_local, df)
             ELSE IF budget.raised THEN Raise(budget.msg, args_local, df)
             ELSE Return([NoOut EXCEPT !.keys = {"budget_max", "count", "recommendations"},
                                       !.num = budget.v, !.count = Len(out), !.rows = out],
                         args_local, df)

tool_recommend(df, args) ==
    IF "budget_max" \notin DOMAIN args THEN Raise("budget_max is required", args, df)
    ELSE LET args_local == WithPriceMax(args)
             f == _apply_filters(df, args_local)
             limit == int_(get(args, "limit", PyInt(RecommendLimitDefault)))
             out == to_dict(head(sort_values(f.q, "Price,Year"), limit.v.n), ListingColumns)
             budget == float_(args["budget_max"])
         IN  IF f.raised THEN Raise(f.msg, args, df)
             ELSE IF limit.raised THEN Raise(limit.msg, args, df)
             ELSE IF budget.raised THEN Raise(budget.msg, args, df)
             ELSE Return([NoOut EXCEPT !.keys = {"budget_max", "count", "recommendations"},
                                       !.num = budget.v, !.count = Len(out), !.rows = out],
                         args, df)

\* Pipeline.predict on one row: numeric passthrough; a category the encoder
\* never saw is encoded as all zeros (handle_unknown="ignore"), here None
predict(model, X_pred) ==
    [fitted_on |-> model.fitted_on,
     x |-> [c \in DOMAIN X_pred |->
              IF c \in Range(feature_cols_numeric) THEN X_pred[c]
              ELSE IF X_pred[c] \in model.categories[c] THEN X_pred[c]
              ELSE None]]

Used == <<"U", "s", "e", "d">>
No == <<"N", "o">>

tool_estimate_price(model, feature_columns, args) ==
    LET year == int_(args["Year"])
        mileage == float_(args["Mileage"])
        payload ==
            [c \in {"Car Make", "Car Model", "Year", "Mileage", "Fuel Type", "Transmission",
                    "Condition", "Accident"} |->
               CASE c = "Car Make" -> Str(str_(get(args, "Car Make", Str(<<>>))))
                 [] c = "Car Model" -> Str(str_(get(args, "Car Model", Str(<<>>))))
                 [] c = "Year" -> year.v
                 [] c = "Mileage" -> mileage.v
                 [] c = "Fuel Type" -> Str(str_(args["Fuel Type"]))
                 [] c = "Transmission" -> Str(str_(args["Transmission"]))
                 [] c = "Condition" -> Str(str_(get(args, "Condition", Str(Used))))
                 [] c = "Accident" -> Str(str_(get(args, "Accident", Str(No))))]
        X_pred == [c \in Range(feature_columns.v) |-> payload[c]]
    IN  IF "Year" \notin DOMAIN args THEN Raise("'Year'", args, <<>>)
        ELSE IF year.raised THEN Raise(year.msg, args, <<>>)
        ELSE IF "Mileage" \notin DOMAIN args THEN Raise("'Mileage'", args, <<>>)
        ELSE IF mileage.raised THEN Raise(mileage.msg, args, <<>>)
        ELSE IF "Fuel Type" \notin DOMAIN args THEN Raise("'Fuel Type'", args, <<>>)
        ELSE IF "Transmission" \notin DOMAIN args THEN Raise("'Transmission'", args, <<>>)
        ELSE IF feature_columns.is_none THEN Raise("None", args, <<>>)
        ELSE IF model.is_none THEN Raise("'NoneType' object has no attribute 'predict'", args, <<>>)
        ELSE Return([NoOut EXCEPT !.keys = {"input", "estimated_price"}, !.echo = payload,
                                  !.pred = predict(model.v, X_pred)],
                    args, <<>>)

RECURSIVE SumTwicePrice(_)
SumTwicePrice(q) == IF q = <<>> THEN 0 ELSE Twice(Head(q).row["Price"]) + SumTwicePrice(Tail(q))

\* the mean is num / den
tool_average_price(df, args) ==
    LET f == _apply_filters(df, args)
    IN  IF f.raised THEN Raise(f.msg, args, df)
        ELSE Return([NoOut EXCEPT !.keys = {"filters", "average_price", "samples"},
                                  !.echo = args,
                                  !.num = IF f.q = <<>> THEN None ELSE PyInt(SumTwicePrice(f.q)),
                                  !.den = 2 * Len(f.q),
                                  !.count = Len(f.q)],
                    args, df)

Cheap == <<"c", "h", "e", "a", "p">>
Expensive == <<"e", "x", "p", "e", "n", "s", "i", "v", "e">>

\* tool_top_cars with a bug planted: the stored frame is sorted in place
tool_top_cars_SortsInPlace(df, args) ==
    LET f == _apply_filters(df, args)
        n == int_(get(args, "n", PyInt(TopNDefault)))
        order == get(args, "sort_order", Str(Cheap))
        asc == order = Str(Cheap)
        by == IF asc THEN "Price asc" ELSE "Price desc"
        out == to_dict(head(sort_values(f.q, by), n.v.n), ListingColumns)
    IN  IF f.raised THEN Raise(f.msg, args, df)
        ELSE IF n.raised THEN Raise(n.msg, args, df)
        ELSE Return([NoOut EXCEPT !.keys = {"order", "results"}, !.order = order, !.rows = out],
                    args, sort_values(df, by))

tool_top_cars(df, args) ==
    LET f == _apply_filters(df, args)
        n == int_(get(args, "n", PyInt(TopNDefault)))
        order == get(args, "sort_order", Str(Cheap))
        asc == order = Str(Cheap)
        out == to_dict(head(sort_values(f.q, IF asc THEN "Price asc" ELSE "Price desc"), n.v.n),
                       ListingColumns)
    IN  IF f.raised THEN Raise(f.msg, args, df)
        ELSE IF n.raised THEN Raise(n.msg, args, df)
        ELSE Return([NoOut EXCEPT !.keys = {"order", "results"}, !.order = order, !.rows = out],
                    args, df)

-----------------------------------------------------------------------------
(* The dispatcher: server.py *)

KnownTools == {"filter_cars", "recommend", "estimate_price", "average_price", "top_cars"}

\* line 157 with a bug planted: the guard is dropped
NeedsInit_Always(st) == TRUE
\* line 157
NeedsInit(st) == st.df.is_none \/ st.model.is_none

\* what call_tool serializes: the payload's keys, its error text (in pieces),
\* its args entry and, for a handler's result, the result
NoPayload == [keys |-> {}, error |-> <<>>, args |-> EmptyDict, result |-> NoOut]
\* line 174
ErrorPayload(msg, arguments) ==
    [keys |-> {"error", "args"}, error |-> <<msg>>, args |-> arguments, result |-> NoOut]
\* line 172 with a bug planted: the name is left out of the message
UnknownToolPayload_NoName(name) ==
    [keys |-> {"error"}, error |-> <<"Unknown tool">>, args |-> EmptyDict, result |-> NoOut]
\* line 172
UnknownToolPayload(name) ==
    [keys |-> {"error"}, error |-> <<"Unknown tool: ", name>>, args |-> EmptyDict, result |-> NoOut]

\* lines 160-174: the handler's result, or the error payload of what it raised;
\* `arguments` is the object the handler was given, as the handler left it
Catch(h) ==
    IF h.raised THEN ErrorPayload(h.msg, h.args)
    ELSE [keys |-> h.out.keys, error |-> <<>>, args |-> EmptyDict, result |-> h.out]

\* lines 160-174: the payload, and STATE with the frame as the handler left it
Dispatch(name, st, arguments) ==
    IF name \notin KnownTools THEN [payload |-> UnknownToolPayload(name), state |-> st, handler |-> FALSE]
    ELSE IF name = "estimate_price"
    THEN [payload |-> Catch(tool_estimate_price(st.model, st.feature_columns, arguments)),
          state |-> st, handler |-> TRUE]
    ELSE LET h == CASE name = "filter_cars" -> tool_filter_cars(st.df.v, arguments)
                    [] name = "recommend" -> tool_recommend(st.df.v, arguments)
                    [] name = "average_price" -> tool_average_price(st.df.v, arguments)
                    [] name = "top_cars" -> tool_top_cars(st.df.v, arguments)
         IN  [payload |-> Catch(h), state |-> [st EXCEPT !.df = Some(h.df)], handler |-> TRUE]

-----------------------------------------------------------------------------
(* Inputs *)

MaxRows == 2
MaxCalls == 3
NTasks == 2

S(x) == Str(x)
Row(make, year, mileage, price, fuel, accident) ==
    ("Car Make" :> make) @@ ("Car Model" :> S(<<"M", "x">>)) @@ ("Year" :> year)
    @@ ("Mileage" :> mileage) @@ ("Price" :> price) @@ ("Fuel Type" :> fuel)
    @@ ("Color" :> S(<<"r", "e", "d">>)) @@ ("Transmission" :> S(<<"A", "u", "t", "o">>))
    @@ ("Options/Features" :> S(<<"G", "P", "S">>)) @@ ("Condition" :> S(<<" ", "U", "s", "e", "d">>))
    @@ ("Accident" :> accident)

Toyota == <<"T", "o">>
Honda == <<"H", "o">>
Gas == <<"G", "a", "s">>
Diesel == <<"D", "i">>
Yes == <<"Y", "e", "s">>

\* cells as read_csv gives them: numbers, text, or missing (NaN)
SourceRows ==
    { Row(S(<<" ">> \o Toyota), PyInt(2025), PyInt(0), PyInt(12000), S(Gas), S(No)),
      Row(S(Honda), PyInt(2010), PyInt(300000), PyInt(9000), S(Gas \o <<" ">>), S(Yes)),
      Row(S(Toyota), PyInt(2016), PyInt(50000), PyInt(9000), S(Diesel), S(No)),
      Row(S(Honda), PyInt(2018), PyInt(20000), PyInt(5000), NaN, S(No)),
      Row(S(Toyota), S(<<"x">>), PyInt(10), PyInt(7000), S(Gas), S(No)),
      Row(S(Honda), PyInt(2026), PyInt(10), PyInt(7000), S(Gas), S(No)),
      Row(NaN, PyInt(2015), PyInt(10), PyInt(0), S(Gas), S(No)) }

CsvFile(rows) == [exists |-> TRUE, columns |-> Range(REQUIRED_COLUMNS), rows |-> rows]

\* more rows than the default limit of filter_cars
BigTable ==
    CsvFile([i \in 1..(FilterLimitDefault + 2) |->
               Row(S(IF i % 3 = 0 THEN Honda ELSE Toyota), PyInt(YearMin + (i % 5)), PyInt(1000 * i),
                   PyInt(1000 * (((i * 7) % 11) + 1)), S(IF i % 2 = 0 THEN Gas ELSE Diesel), S(No))])

FunctionTables ==
    {CsvFile(rows) : rows \in UNION {[1..n -> SourceRows] : n \in 0..MaxRows}} \cup {BigTable}

Showroom ==
    CsvFile(<<Row(S(<<" ">> \o Toyota), PyInt(2025), PyInt(0), PyInt(12000), S(Gas), S(No)),
              Row(S(Honda), PyInt(2010), PyInt(300000), PyInt(9000), S(Gas \o <<" ">>), S(Yes)),
              Row(S(Toyota), PyInt(2016), PyInt(50000), PyInt(9000), S(Diesel), S(No)),
              Row(S(Honda), PyInt(2018), PyInt(20000), PyInt(5000), NaN, S(No)),
              Row(S(Honda), PyInt(2026), PyInt(10), PyInt(7000), S(Gas), S(No))>>)
\* a file without the Price column
NoPriceColumn ==
    [exists |-> TRUE, columns |-> Range(REQUIRED_COLUMNS) \ {"Price"},
     rows |-> <<[c \in Range(REQUIRED_COLUMNS) \ {"Price"} |-> S(Gas)]>>]
\* a file whose rows are all dropped by the cleaning
NoValidRow ==
    CsvFile(<<Row(S(Toyota), S(<<"x">>), PyInt(10), PyInt(7000), S(Gas), S(No)),
              Row(S(Honda), PyInt(2026), PyInt(10), PyInt(7000), S(Gas), S(No))>>)
NoFile == [exists |-> FALSE, columns |-> {}, rows |-> <<>>]
DispatchTables == {Showroom, NoPriceColumn, NoValidRow, NoFile, CsvFile(<<>>)}

\* argument objects: each choice is a dict, merged with @@
ExactChoices ==
    { EmptyDict,
      "Car Make" :> S(<<" ", "t", "O", " ">>),
      "Car Make" :> S(<<>>),
      ("Fuel Type" :> S(<<"G", "A", "S">>)) @@ ("Accident" :> S(<<"n", "o">>)),
      "Accident" :> S(<<"M", "a", "y", "b", "e">>) }
RangeChoices ==
    { EmptyDict,
      "Year_min" :> PyInt(2016),
      "Year_min" :> Half(2016),
      "Year_min" :> None,
      "Year_min" :> S(<<"x">>),
      ("Year_min" :> PyInt(2011)) @@ ("Year_max" :> PyInt(2016)),
      "Price_max" :> PyInt(9000),
      "Price_max" :> Half(8999),
      "Mileage_max" :> PyInt(50000) }
LimitChoices ==
    { EmptyDict, "limit" :> PyInt(1), "limit" :> PyInt(-1), "limit" :> S(<<"x">>) }
BudgetChoices ==
    { EmptyDict, "budget_max" :> PyInt(9000), "budget_max" :> Half(11999),
      "budget_max" :> None, "budget_max" :> S(<<"x">>),
      ("budget_max" :> PyInt(12000)) @@ ("Price_max" :> PyInt(1)) }

CriteriaArgs == {a @@ b : a \in ExactChoices, b \in RangeChoices}
FilterCarsArgs == {c @@ l : c \in ExactChoices \cup RangeChoices, l \in LimitChoices}
RecommendArgs ==
    {b @@ c @@ l : b \in BudgetChoices,
                   c \in {EmptyDict, ("Car Make" :> S(<<" ", "t", "O", " ">>)) @@ ("Year_min" :> Half(2016))},
                   l \in LimitChoices}

EstimateFull ==
    ("Year" :> PyInt(2016)) @@ ("Mileage" :> Half(50000)) @@ ("Fuel Type" :> S(Gas))
    @@ ("Transmission" :> S(<<"A", "u", "t", "o">>))
Without(d, k) == [x \in DOMAIN d \ {k} |-> d[x]]
EstimateArgs ==
    { EstimateFull,
      EstimateFull @@ ("Car Make" :> S(<<"F", "o", "r", "d">>)) @@ ("Accident" :> S(Yes)),
      Without(EstimateFull, "Year"), Without(EstimateFull, "Mileage"),
      Without(EstimateFull, "Fuel Type"), Without(EstimateFull, "Transmission"),
      ("Year" :> S(<<"x">>)) @@ EstimateFull,
      EstimateFull @@ ("Color" :> S(<<"r", "e", "d">>)) }

\* the invocations of the dispatcher specification
Calls ==
    [name : {"filter_cars"},
     args : { EmptyDict, "Accident" :> S(<<"M", "a", "y", "b", "e">>), "Color" :> S(<<"r", "e", "d">>),
              "Year_min" :> S(<<"x">>), "limit" :> PyInt(-1), "limit" :> PyInt(1),
              ("Car Make" :> S(<<" ", "t", "O", " ">>)) @@ ("Price_max" :> PyInt(9000)) }]
    \cup [name : {"recommend"},
          args : { EmptyDict, "budget_max" :> PyInt(9000), "budget_max" :> S(<<"x">>),
                   "budget_max" :> None,
                   ("budget_max" :> PyInt(9000)) @@ ("Year_min" :> S(<<"x">>)),
                   ("budget_max" :> PyInt(12000)) @@ ("Price_max" :> PyInt(1)),
                   "limit" :> PyInt(1) }]
    \cup [name : {"estimate_price"}, args : EstimateArgs]
    \cup [name : {"average_price"},
          args : { EmptyDict, "Car Make" :> S(<<"F", "o", "r", "d">>), "Price_max" :> PyInt(9000),
                   "Year_max" :> S(<<"x">>) }]
    \cup [name : {"top_cars"},
          args : { EmptyDict, "sort_order" :> S(Expensive), "sort_order" :> S(<<"f", "a", "s", "t">>),
                   "n" :> PyInt(1), "n" :> S(<<"x">>) }]
    \cup [name : {"bogus", "Filter_Cars", ""},
          args : { EmptyDict, "budget_max" :> PyInt(9000) }]

-----------------------------------------------------------------------------
(* The dispatcher, one invocation at a time *)

Tasks == 1..NTasks
NoCall == [name |-> "", args |-> EmptyDict]
NoOutcome == [kind |-> "none", msg |-> "", payload |-> NoPayload, handler |-> FALSE]
NoFnOut == [raised |-> FALSE, msg |-> "", q |-> <<>>, out |-> NoOut]

InitRest ==
    /\ na_as_text \in BOOLEAN
    /\ state = STATE0
    /\ call = NoCall
    /\ outcome = NoOutcome
    /\ loads = 0
    /\ ncalls = 0
    /\ fn = "none"
    /\ fn_args = EmptyDict
    /\ fn_out = NoFnOut
    /\ pc = [t \in Tasks |-> "idle"]
    /\ partial_seen = FALSE

Init == table \in DispatchTables /\ InitRest

\* server.py lines 151-180: initialization is outside the try, so what it
\* raises reaches the caller; the handler's exceptions become a payload
call_tool(name, arguments) ==
    /\ ncalls < MaxCalls
    /\ LET ran == NeedsInit(state)
           ini == IF ran THEN init_data_and_model(table, state)
                  ELSE [raised |-> FALSE, msg |-> "", state |-> state]
           d == Dispatch(name, ini.state, arguments)
       IN  /\ loads' = loads + (IF ran THEN 1 ELSE 0)
           /\ IF ini.raised
              THEN /\ state' = ini.state
                   /\ outcome' = [kind |-> "raised", msg |-> ini.msg, payload |-> NoPayload,
                                  handler |-> FALSE]
              ELSE /\ state' = d.state
                   /\ outcome' = [kind |-> "returned", msg |-> "", payload |-> d.payload,
                                  handler |-> d.handler]
    /\ call' = [name |-> name, args |-> arguments]
    /\ ncalls' = ncalls + 1
    /\ UNCHANGED <<table, na_as_text, fn, fn_args, fn_out, pc, partial_seen>>

Next == \E c \in Calls : call_tool(c.name, c.args)

Spec == Init /\ [][Next]_vars

-----------------------------------------------------------------------------
(* The functions on their own: one application to the cleaned table *)

FnInit == table \in FunctionTables /\ InitRest

\* the frame every handler is given: lines 44-46
CleanedDf == _clean_df(read_csv(table).df)

Applied(name, args, out) ==
    /\ fn = "none"
    /\ fn' = name
    /\ fn_args' = args
    /\ fn_out' = out
    /\ UNCHANGED <<table, na_as_text, state, call, outcome, loads, ncalls, pc, partial_seen>>

Clean == Applied("_clean_df", EmptyDict, [NoFnOut EXCEPT !.q = CleanedDf])

ApplyFilters(args) ==
    LET f == _apply_filters(CleanedDf, args)
    IN  Applied("_apply_filters", args, [raised |-> f.raised, msg |-> f.msg, q |-> f.q, out |-> NoOut])

FilterCars(args) ==
    LET h == tool_filter_cars(CleanedDf, args)
    IN  Applied("tool_filter_cars", args, [raised |-> h.raised, msg |-> h.msg, q |-> <<>>, out |-> h.out])

Recommend(args) ==
    LET h == tool_recommend(CleanedDf, args)
    IN  Applied("tool_recommend", args, [raised |-> h.raised, msg |-> h.msg, q |-> <<>>, out |-> h.out])

FnNext ==
    \/ Clean
    \/ \E args \in CriteriaArgs : ApplyFilters(args)
    \/ \E args \in FilterCarsArgs : FilterCars(args)
    \/ \E args \in RecommendArgs : Recommend(args)

SpecFn == FnInit /\ [][FnNext]_vars

-----------------------------------------------------------------------------
(* The dispatcher under preemptive dispatch: invocations interleave between *)
(* the statements of call_tool and init_data_and_model.  Neither function   *)
(* takes a lock.                                                            *)

ConcCalls ==
    { [name |-> "estimate_price", args |-> EstimateFull],
      [name |-> "filter_cars", args |-> EmptyDict] }

Goto(t, l) == pc' = [pc EXCEPT ![t] = l]

\* the host starts an invocation
Arrive(t) ==
    /\ pc[t] = "idle"
    /\ Goto(t, "line157")
    /\ UNCHANGED <<table, na_as_text, state, call, outcome, loads, ncalls, fn, fn_args, fn_out,
                   partial_seen>>

\* server.py line 157
Check(t) ==
    /\ pc[t] = "line157"
    /\ Goto(t, IF NeedsInit(state) THEN "line158" ELSE "line160")
    /\ UNCHANGED <<table, na_as_text, state, call, outcome, loads, ncalls, fn, fn_args, fn_out,
                   partial_seen>>

\* tools.py lines 44-68: load, clean and fit into locals; a failure propagates
\* out of call_tool
Load(t) ==
    /\ pc[t] = "line158"
    /\ loads' = loads + 1
    /\ LET ini == init_data_and_model(table, state)
       IN  IF ini.raised
           THEN /\ Goto(t, "raised")
                /\ outcome' = [kind |-> "raised", msg |-> ini.msg, payload |-> NoPayload,
                               handler |-> FALSE]
           ELSE /\ Goto(t, "line70")
                /\ UNCHANGED outcome
    /\ UNCHANGED <<table, na_as_text, state, call, ncalls, fn, fn_args, fn_out, partial_seen>>

\* tools.py line 70
StoreDf(t) ==
    /\ pc[t] = "line70"
    /\ state' = [state EXCEPT !.df = init_data_and_model(table, STATE0).state.df]
    /\ Goto(t, "line71")
    /\ UNCHANGED <<table, na_as_text, call, outcome, loads, ncalls, fn, fn_args, fn_out, partial_seen>>

\* tools.py line 71
StoreModel(t) ==
    /\ pc[t] = "line71"
    /\ state' = [state EXCEPT !.model = init_data_and_model(table, STATE0).state.model]
    /\ Goto(t, "line72")
    /\ UNCHANGED <<table, na_as_text, call, outcome, loads, ncalls, fn, fn_args, fn_out, partial_seen>>

\* tools.py line 72
StoreColumns(t) ==
    /\ pc[t] = "line72"
    /\ state' = [state EXCEPT !.feature_columns =
                                init_data_and_model(table, STATE0).state.feature_columns]
    /\ Goto(t, "line160")
    /\ UNCHANGED <<table, na_as_text, call, outcome, loads, ncalls, fn, fn_args, fn_out, partial_seen>>

\* server.py lines 160-180
Handle(t, c) ==
    /\ pc[t] = "line160"
    /\ LET d == Dispatch(c.name, state, c.args)
       IN  /\ state' = d.state
           /\ outcome' = [kind |-> "returned", msg |-> "", payload |-> d.payload, handler |-> d.handler]
    /\ partial_seen' = (partial_seen \/ state.feature_columns.is_none)
    /\ call' = c
    /\ ncalls' = ncalls + 1
    /\ Goto(t, "done")
    /\ UNCHANGED <<table, na_as_text, loads, fn, fn_args, fn_out>>

ConcNext ==
    \E t \in Tasks :
        \/ Arrive(t)
        \/ Check(t)
        \/ Load(t)
        \/ StoreDf(t)
        \/ StoreModel(t)
        \/ StoreColumns(t)
        \/ \E c \in ConcCalls : Handle(t, c)

SpecConc == Init /\ [][ConcNext]_vars

-----------------------------------------------------------------------------
(* The declared input schemas: server.py list_tools.  Every schema sets     *)
(* additionalProperties to False.                                           *)

YesNo == {Yes, No}
InputSchema(name) ==
    CASE name = "filter_cars" ->
           [string |-> {"Car Make", "Car Model", "Fuel Type", "Transmission", "Condition", "Accident"},
            integer |-> {"Year_min", "Year_max", "limit"},
            number |-> {"Price_max", "Mileage_max"},
            enum |-> ("Accident" :> YesNo),
            required |-> {}]
      [] name = "recommend" ->
           [string |-> {"Car Make", "Fuel Type", "Transmission", "Condition", "Accident"},
            integer |-> {"Year_min", "limit"},
            number |-> {"budget_max"},
            enum |-> ("Accident" :> YesNo),
            required |-> {"budget_max"}]
      [] name = "estimate_price" ->
           [string |-> {"Car Make", "Car Model", "Fuel Type", "Transmission", "Condition", "Accident"},
            integer |-> {"Year"},
            number |-> {"Mileage"},
            enum |-> ("Accident" :> YesNo),
            required |-> {"Year", "Mileage", "Fuel Type", "Transmission"}]
      [] name = "average_price" ->
           [string |-> {"Car Make", "Car Model", "Fuel Type", "Transmission", "Condition", "Accident"},
            integer |-> {"Year_min", "Year_max"},
            number |-> {},
            enum |-> ("Accident" :> YesNo),
            required |-> {}]
      [] name = "top_cars" ->
           [string |-> {"sort_order", "Car Make", "Fuel Type", "Transmission", "Condition", "Accident"},
            integer |-> {"n"},
            number |-> {},
            enum |-> ("Accident" :> YesNo) @@ ("sort_order" :> {Cheap, Expensive}),
            required |-> {}]

-----------------------------------------------------------------------------
(* Properties of the dispatcher *)

Initialized == ~state.df.is_none /\ ~state.model.is_none
\* a step that is one invocation
Invocation == ncalls' = ncalls + 1
HasError(payload) == payload.error # <<>>

\* C1: once a call has completed initialization, no later call, whatever its
\* name, arguments or outcome, runs init_data_and_model again, and the dataset
\* and the model stay those the first initialization stored.
C1_InitRunsOnce ==
    [][Initialized =>
         /\ loads' = loads
         /\ state'.df = state.df
         /\ state'.model = state.model]_vars
\* a third call has returned an error payload on the state the first call built
C1_Witness ==
    /\ Initialized
    /\ loads = 1
    /\ ncalls >= 3
    /\ outcome.kind = "returned"
    /\ HasError(outcome.payload)

\* C2, as stated: a call with an unknown name never raises, returns
\* {"error": "Unknown tool: <name>"} and leaves df, model and feature_columns
\* as they were, uninitialized state included.
C2_UnknownToolLeavesState ==
    [][(Invocation /\ call'.name \notin KnownTools) =>
         /\ outcome'.kind = "returned"
         /\ outcome'.payload.keys = {"error"}
         /\ outcome'.payload.error = <<"Unknown tool: ", call'.name>>
         /\ state' = state]_vars
\* C2, amended: on initialized state a call with an unknown name returns
\* {"error": "Unknown tool: <name>"} and leaves the state as it was; on
\* uninitialized state it first runs the lazy initialization like any call, and
\* either returns that payload with the state now initialized, or raises the
\* initialization's failure with the state still unset.
C2_UnknownToolAfterInit ==
    [][(Invocation /\ call'.name \notin KnownTools) =>
         LET unknown == /\ outcome'.kind = "returned"
                        /\ outcome'.payload.keys = {"error"}
                        /\ outcome'.payload.error = <<"Unknown tool: ", call'.name>>
         IN  IF Initialized THEN unknown /\ state' = state
             ELSE \/ unknown /\ ~state'.df.is_none /\ ~state'.model.is_none
                              /\ ~state'.feature_columns.is_none
                  \/ outcome'.kind = "raised" /\ state' = state]_vars
\* a first call with an unknown name has initialized the state and returned
C2_Witness ==
    /\ ncalls = 1
    /\ call.name = "bogus"
    /\ outcome.kind = "returned"
    /\ Initialized

\* C3: on initialized state, what a known tool's handler raises never escapes
\* call_tool: the call returns, and an error payload is {error, args} with args
\* the caller's argument object as passed; recommend without budget_max,
\* estimate_price without a required field and a non-numeric bound are such
\* errors.
C3_HandlerErrorsBecomePayloads ==
    (call.name \in KnownTools /\ Initialized) =>
        /\ outcome.kind = "returned"
        /\ HasError(outcome.payload) =>
             /\ outcome.payload.keys = {"error", "args"}
             /\ outcome.payload.args = call.args
        /\ (call.name = "recommend" /\ "budget_max" \notin DOMAIN call.args) =>
             outcome.payload.error = <<"budget_max is required">>
        /\ (call.name = "estimate_price"
            /\ {"Year", "Mileage", "Fuel Type", "Transmission"} \ DOMAIN call.args # {}) =>
             HasError(outcome.payload)
        /\ (call.name \in KnownTools \ {"estimate_price"}
            /\ \E k \in {"Year_min", "Year_max", "budget_max"} \cap DOMAIN call.args :
                 call.args[k].t = "str") =>
             HasError(outcome.payload)
\* recommend raised on a non-numeric Year_min after it had copied its arguments
C3_Witness ==
    /\ Initialized
    /\ call.name = "recommend"
    /\ {"budget_max", "Year_min"} \subseteq DOMAIN call.args
    /\ HasError(outcome.payload)
    /\ outcome.payload.args = call.args

\* the tables on which initialization fails: no file, a required column
\* missing, or no row left to fit
FailingTables == {NoFile, NoPriceColumn, NoValidRow, CsvFile(<<>>)}

\* C4: a call on uninitialized state attempts initialization; when the
\* initialization fails, the failure is raised to that call's caller and df,
\* model and feature_columns all stay unset, so the next call attempts it again.
C4_FailedInitLeavesStateUnset ==
    [][(Invocation /\ ~Initialized) =>
         /\ loads' = loads + 1
         /\ (table \in FailingTables) => outcome'.kind = "raised"
         /\ (outcome'.kind = "raised") =>
              /\ state'.df.is_none
              /\ state'.model.is_none
              /\ state'.feature_columns.is_none
              /\ state' = STATE0]_vars
\* the fit failed on a table without a valid row, three calls in a row
C4_Witness ==
    /\ table = NoValidRow
    /\ ncalls = 3
    /\ loads = 3
    /\ outcome.kind = "raised"
    /\ state = STATE0

\* validation of an argument object against a declared schema: declared
\* properties only, required ones present, declared types and enums
TypeOk(schema, k, v) ==
    /\ k \in schema.string => v.t = "str"
    /\ k \in schema.integer => v.t = "int"
    /\ k \in schema.number => v.t \in {"int", "float"}
    /\ k \in DOMAIN schema.enum => v.t = "str" /\ v.s \in schema.enum[k]
SchemaValid(name, args) ==
    LET schema == InputSchema(name)
    IN  /\ DOMAIN args \subseteq schema.string \cup schema.integer \cup schema.number
        /\ schema.required \subseteq DOMAIN args
        /\ \A k \in DOMAIN args : TypeOk(schema, k, args[k])

\* C5: an argument object that violates the invoked tool's declared schema (an
\* undeclared property, a required one missing, a value outside an enum) is
\* rejected with an error payload, and no handler result is computed from it.
C5_SchemaViolationsRejected ==
    (call.name \in KnownTools /\ outcome.kind = "returned"
     /\ ~SchemaValid(call.name, call.args)) =>
        HasError(outcome.payload)

\* C9: after initialization has succeeded, no invocation changes the stored
\* dataset, model or feature_columns: the handlers only read them.
C9_StateReadOnlyAfterInit ==
    [][(Initialized /\ Invocation) => state' = state]_vars
\* top_cars has sorted and returned rows on an already initialized state
C9_Witness ==
    /\ Initialized
    /\ ncalls >= 2
    /\ call.name = "top_cars"
    /\ outcome.kind = "returned"
    /\ Len(outcome.payload.result.rows) >= 2

-----------------------------------------------------------------------------
(* Properties of the functions *)

\* case-insensitive, trimmed equality of a record's field and a criterion
SameText(cell, v) == cell.t = "str" /\ v.t = "str" /\ lower(strip(cell.s)) = lower(strip(v.s))
\* a criterion is present: the key is there and not null
Given(C, k) == k \in DOMAIN C /\ C[k].t # "none"
\* a number truncated toward zero
Trunc(v) == IF v.t = "float" /\ v.n < 0 THEN v.n + 1 ELSE v.n

\* the predicates of C6 as stated
Satisfies(r, C) ==
    /\ \A col \in Range(ExactColumns) : Given(C, col) => SameText(r.row[col], C[col])
    /\ Given(C, "Year_min") => Twice(r.row["Year"]) >= Twice(C["Year_min"])
    /\ Given(C, "Year_max") => Twice(r.row["Year"]) <= Twice(C["Year_max"])
    /\ Given(C, "Price_max") => Twice(r.row["Price"]) <= Twice(C["Price_max"])
    /\ Given(C, "Mileage_max") => Twice(r.row["Mileage"]) <= Twice(C["Mileage_max"])

\* C6, as stated: the subset _apply_filters returns holds exactly the records
\* that satisfy every exact-match predicate present (case-insensitive, trimmed
\* equality) and every numeric bound present; with no criteria it is the whole
\* dataset.
C6_FilterExact ==
    (fn = "_apply_filters" /\ ~fn_out.raised) =>
        fn_out.q = SelectSeq(CleanedDf, LAMBDA r : Satisfies(r, fn_args))

\* the predicates of C6 as the code applies them: an empty string is no
\* criterion, and the Year bounds are truncated to integers
SatisfiesAmended(r, C) ==
    /\ \A col \in Range(ExactColumns) :
         (Given(C, col) /\ C[col] # Str(<<>>)) => SameText(r.row[col], C[col])
    /\ Given(C, "Year_min") => Twice(r.row["Year"]) >= 2 * Trunc(C["Year_min"])
    /\ Given(C, "Year_max") => Twice(r.row["Year"]) <= 2 * Trunc(C["Year_max"])
    /\ Given(C, "Price_max") => Twice(r.row["Price"]) <= Twice(C["Price_max"])
    /\ Given(C, "Mileage_max") => Twice(r.row["Mileage"]) <= Twice(C["Mileage_max"])

\* C6, amended: the subset holds exactly the records that satisfy every
\* exact-match predicate present with a non-empty value (an empty string, like
\* an absent key, imposes no constraint) and every numeric bound present, the
\* Year bounds being truncated to integers first: Year >= int(Year_min),
\* Year <= int(Year_max), Price <= Price_max, Mileage <= Mileage_max.
C6_FilterExactAmended ==
    (fn = "_apply_filters" /\ ~fn_out.raised) =>
        fn_out.q = SelectSeq(CleanedDf, LAMBDA r : SatisfiesAmended(r, fn_args))
\* a Make given in another case with spaces around it, and a Year bound, kept
\* some records and dropped others
C6_Witness ==
    /\ fn = "_apply_filters"
    /\ ~fn_out.raised
    /\ {"Car Make", "Year_max"} \subseteq DOMAIN fn_args
    /\ fn_args["Car Make"] = Str(<<" ", "t", "O", " ">>)
    /\ Len(fn_out.q) > 0
    /\ Len(fn_out.q) < Len(CleanedDf)

\* the listing of the last application, the subset it is drawn from and its limit
Listing == fn_out.out.rows
ListedSubset ==
    LET C == IF fn = "tool_recommend"
             THEN [k \in DOMAIN fn_args \cup {"Price_max"} |->
                     IF k = "Price_max" THEN fn_args["budget_max"] ELSE fn_args[k]]
             ELSE fn_args
        cols == IF fn = "tool_recommend" THEN ListingColumns ELSE FilterCarsColumns
        sub == SelectSeq(CleanedDf, LAMBDA r : SatisfiesAmended(r, C))
    IN  [i \in 1..Len(sub) |-> [c \in cols |-> sub[i].row[c]]]
Limit ==
    IF "limit" \in DOMAIN fn_args THEN Trunc(fn_args["limit"])
    ELSE IF fn = "tool_recommend" THEN RecommendLimitDefault ELSE FilterLimitDefault

\* a precedes b in the order of the listings: cheaper first, newer first
\* among equal prices
Precedes(a, b) ==
    \/ Twice(a["Price"]) < Twice(b["Price"])
    \/ Twice(a["Price"]) = Twice(b["Price"]) /\ Twice(a["Year"]) > Twice(b["Year"])
Count(seq, x) == Cardinality({i \in 1..Len(seq) : seq[i] = x})
Min(a, b) == IF a < b THEN a ELSE b
Max(a, b) == IF a > b THEN a ELSE b

\* the listing is in order, and is a first part of the subset in that order
OrderedFirstPart ==
    LET L == Listing
        P == ListedSubset
    IN  /\ \A i \in 1..(Len(L) - 1) : ~Precedes(L[i + 1], L[i])
        /\ \A i \in 1..Len(L) : Count(L, L[i]) <= Count(P, L[i])
        /\ \A j \in 1..Len(P) :
             Count(L, P[j]) < Count(P, P[j]) => \A i \in 1..Len(L) : ~Precedes(P[j], L[i])

\* C7, as stated: results and recommendations are sorted by Price ascending,
\* then Year descending, and are the first `limit` records of the filtered
\* subset: count = min(size of the subset, limit).
C7_SortedFirstLimit ==
    (fn \in {"tool_filter_cars", "tool_recommend"} /\ ~fn_out.raised) =>
        /\ OrderedFirstPart
        /\ fn_out.out.count = Len(Listing)
        /\ fn_out.out.count = Min(Len(ListedSubset), Limit)

\* C7, amended: results and recommendations are sorted by Price ascending, then
\* Year descending, and are a first part of the filtered subset in that order:
\* its first `limit` records for a limit >= 0 (default 20 for filter_cars, 10
\* for recommend), count = min(size, limit); all but its last -limit records
\* for a negative limit, count = max(size + limit, 0).
C7_SortedFirstLimitAmended ==
    (fn \in {"tool_filter_cars", "tool_recommend"} /\ ~fn_out.raised) =>
        /\ OrderedFirstPart
        /\ fn_out.out.count = Len(Listing)
        /\ fn_out.out.count = IF Limit >= 0 THEN Min(Len(ListedSubset), Limit)
                              ELSE Max(Len(ListedSubset) + Limit, 0)
\* filter_cars without a limit cut a subset of more than 20 records to 20, two
\* of them of equal Price
C7_Witness ==
    /\ fn = "tool_filter_cars"
    /\ ~fn_out.raised
    /\ "limit" \notin DOMAIN fn_args
    /\ Len(ListedSubset) > FilterLimitDefault
    /\ fn_out.out.count = FilterLimitDefault
    /\ \E i \in 1..(Len(Listing) - 1) :
         /\ Listing[i]["Price"] = Listing[i + 1]["Price"]
         /\ Listing[i]["Year"] # Listing[i + 1]["Year"]

\* C8: a record is in the cleaned dataset only if none of its Year, Mileage,
\* Price, Fuel Type, Transmission, Condition, Accident was missing in the source
\* (a non-numeric Year, Mileage or Price counts as missing) and its Year is in
\* [2010, 2025], its Mileage in [0, 300000] and its Price in (0, 400000].
C8_CleanedRecordsComplete ==
    fn = "_clean_df" =>
        \A i \in 1..Len(fn_out.q) :
            LET src == table.rows[fn_out.q[i].idx + 1]
            IN  /\ \A c \in {"Year", "Mileage", "Price"} : IsNumber(src[c])
                /\ \A c \in {"Fuel Type", "Transmission", "Condition", "Accident"} : src[c].t # "nan"
                /\ Twice(src["Year"]) >= 2 * 2010 /\ Twice(src["Year"]) <= 2 * 2025
                /\ Twice(src["Mileage"]) >= 0 /\ Twice(src["Mileage"]) <= 2 * 300000
                /\ Twice(src["Price"]) > 0 /\ Twice(src["Price"]) <= 2 * 400000

-----------------------------------------------------------------------------
(* Property of the dispatcher under preemptive dispatch *)

InsideInit(t) == pc[t] \in {"line158", "line70", "line71", "line72"}

\* C10: initialization is guarded by mutual exclusion: no two invocations are
\* inside it at once, the load and fit run at most once on a table that can be
\* loaded, and no handler runs while the state is partially stored.
C10_InitMutuallyExclusive ==
    /\ Cardinality({t \in Tasks : InsideInit(t)}) <= 1
    /\ table \notin FailingTables => loads <= 1
    /\ ~partial_seen

====
